---- MODULE Spec2Model ----
(***************************************************************************)
(* Order workflow of the e-commerce administration backend                 *)
(* (backend/app/api/routes/orders.py) over the relational Record Store,    *)
(* together with the product and client operations it depends on.          *)
(*                                                                         *)
(* The store is PostgreSQL (core/db.py) at its default READ COMMITTED      *)
(* isolation; the foreign keys declared in models/order.py are enforced    *)
(* by the store at commit.  Identifiers are uuid4 values: a fresh one is   *)
(* modelled as the next value of a counter that is never reused.           *)
(*                                                                         *)
(* Three specifications share the variables:                               *)
(*   SpecSeq  one request at a time, every handler runs to completion;     *)
(*   Spec     concurrent create_order requests, one step per store         *)
(*            statement (READ COMMITTED, no row locks across statements);   *)
(*   SpecSer  concurrent create_order requests, every database            *)
(*            transaction of the handler executes atomically               *)
(*            (serializable transactions).                                 *)
(***************************************************************************)
EXTENDS Integers, Sequences, FiniteSets, TLC

\* ------------------------------------------------------------------ bounds
MaxProducts == 2
MaxClients == 1
MaxOrders == 2
MaxStock == 2
MaxQty == 2
MaxItems == 2
MaxWorkers == 2
MaxConcItems == 1
MaxClientRows == 2
MaxUsers == 3
MaxPrice == 2

ProductIds == 1..MaxProducts
ClientIds == 1..MaxClients
OrderIds == 1..MaxOrders
Workers == 1..MaxWorkers
UserIds == 1..MaxUsers

\* ------------------------------------------------------- request payloads
\* OrderItemBase.section: Optional[str]
NoSection == "None"
Sections == {"bakery", "dairy"}

\* ProductBase.sale_price and OrderItemBase.unit_price (ge=0)
Prices == 0..MaxPrice
ListPrice == 1

\* OrderItemCreate: product_id, quantity (ge=1), unit_price, section; the
\* requests of the stock specifications carry one price and no section
OrderItemCreate ==
    [product_id : ProductIds, quantity : 1..MaxQty, unit_price : {ListPrice},
     section : {NoSection}]

\* OrderCreate: client_id, items (a list, possibly empty)
OrderCreate ==
    [client_id : ClientIds,
     items : UNION {[1..n -> OrderItemCreate] : n \in 0..MaxItems}]

\* OrderUpdate.status: Optional[str]; "" stands for both None and the empty
\* string, the two falsy values of `if order_up.status`
OrderUpdate == {"shipped", ""}

\* ProductCreate.initial_stock / ProductUpdate.initial_stock (ge=0)
StockInputs == 0..MaxStock

\* ProductBase.barcode: str, with no constraint (the empty string included)
Barcodes == {"", "789"}

\* a field of a PUT body that was not supplied (dropped by exclude_unset)
Unset == "unset"
NoStock == 0 - 1

NoPrice == 0 - 1

\* ProductBase.category
Categories == {"toys", "food"}

\* ProductCreate: barcode, initial_stock, category, sale_price; the requests
\* of the catalog carry one category and one price
ProductCreate ==
    [barcode : Barcodes, initial_stock : StockInputs, category : {"toys"},
     sale_price : {ListPrice}]

\* ProductUpdate: barcode, initial_stock, category, sale_price, each optional
ProductUpdate ==
    [barcode : Barcodes \cup {Unset}, initial_stock : StockInputs \cup {NoStock},
     category : {Unset}, sale_price : {NoPrice}]

\* Client.email and Client.cpf as the requests supply them
Emails == {"ana@example.com", "bob@example.com"}
Cpfs == {"11111111111", "22222222222"}

\* ClientCreate: email, cpf
ClientCreate == [email : Emails, cpf : Cpfs]

\* ClientUpdate: email, cpf, each optional
ClientUpdate == [email : Emails \cup {Unset}, cpf : Cpfs \cup {Unset}]

\* the body the stock specifications send for the n-th client
Registered(n) == [email |-> ToString(n), cpf |-> ToString(n)]

\* UserBase.email (EmailStr) and the passwords the requests supply
UserEmails == {"admin@example.com", "ana@example.com", "bob@example.com"}
Passwords == {"password1", "password2"}

\* UserRole
ADMIN == "admin"
CLIENT == "client"

\* UserRegister: email, password
UserRegister == [email : UserEmails, password : Passwords]

\* UserUpdateMe: email, optional
UserUpdateMe == [email : UserEmails \cup {Unset}]

\* UpdatePassword: current_password, new_password
UpdatePassword == [current_password : Passwords, new_password : Passwords]

\* UserUpdate: email, role and is_active, each optional
UserUpdate ==
    [email : UserEmails \cup {Unset}, role : {ADMIN, CLIENT, Unset},
     is_active : {"true", "false", Unset}]

\* the bodies the stock specifications send: the n-th product created comes
\* with a barcode of its own, and an update supplies the stock only
Stocked(n, initial_stock) ==
    [barcode |-> ToString(n), initial_stock |-> initial_stock, category |-> "toys",
     sale_price |-> ListPrice]
Restocked(initial_stock) ==
    [barcode |-> Unset, initial_stock |-> initial_stock, category |-> Unset,
     sale_price |-> NoPrice]

\* the bodies of the requests that race for a barcode: a product created
\* with a non-empty barcode, and an update that supplies a barcode only
Labels == {"789", "790"}
Labelled(barcode) ==
    [barcode |-> barcode, initial_stock |-> 1, category |-> "toys", sale_price |-> ListPrice]
Relabelled(barcode) ==
    [barcode |-> barcode, initial_stock |-> NoStock, category |-> Unset, sale_price |-> NoPrice]

\* the bodies of the requests that fill the shelves: the n-th product created
\* comes with a barcode of its own, a category, a price and a stock
ShelfProductCreate(n) ==
    [barcode : {ToString(n)}, initial_stock : 1..MaxStock, category : Categories,
     sale_price : Prices]

\* the bodies of the requests that order one item from the shelves
ShelfOrderCreate ==
    [client_id : ClientIds,
     items : [1..1 -> [product_id : ProductIds, quantity : 1..MaxQty,
                       unit_price : {ListPrice}, section : {NoSection}]]]

\* the bodies of the requests that change a price, and of the orders placed
\* at a price the caller names
Repriced(sale_price) ==
    [barcode |-> Unset, initial_stock |-> NoStock, category |-> Unset,
     sale_price |-> sale_price]
PricedOrderCreate ==
    [client_id : ClientIds,
     items : [1..1 -> [product_id : ProductIds, quantity : {1}, unit_price : Prices,
                       section : {NoSection}]]]

\* the query parameters of list_products: category, min_price, max_price and
\* available, each optional, skip and limit
ProductQuery ==
    [category : Categories \cup {"", Unset}, min_price : Prices \cup {NoPrice},
     max_price : Prices \cup {NoPrice}, available : {"true", "false", Unset},
     skip : 0..1, limit : 1..MaxProducts]

\* a stock that the requests of the bounded runs cannot exhaust
AmpleStock == MaxOrders * MaxItems * MaxQty

\* the bodies of the requests whose items carry a section
SectionOrderCreate ==
    [client_id : ClientIds,
     items : UNION {[1..n -> [product_id : ProductIds, quantity : {1},
                              unit_price : {ListPrice}, section : Sections]] :
                    n \in 1..MaxItems}]

\* the bodies of the requests that run concurrently
ConcOrderCreate == {o \in OrderCreate : Len(o.items) <= MaxConcItems}

NoOrderCreate == [client_id |-> 0, items |-> <<>>]
EmptyMap == [x \in {} |-> 0]

\* ------------------------------------------------------------------ state
VARIABLES
    products,      \* table product: id -> [barcode, initial_stock]
    clients,       \* table client: id -> [email, cpf]
    orders,        \* table order: id -> [client_id, status]
    order_items,   \* table order_item: set of [order_id, pos, product_id, quantity, section]
    product_seq,   \* uuid4 values handed out for products so far
    client_seq,    \* uuid4 values handed out for clients so far
    order_seq,     \* uuid4 values handed out for orders so far
    pc,            \* per worker: position inside create_order
    req,           \* per worker: the OrderCreate body being handled
    idx,           \* per worker: loop index into req.items
    cache,         \* per worker: the Session's identity map, product id -> initial_stock in memory
    oid,           \* per worker: db_order.id
    response,      \* the response to the create_order request that ran alone last: [status, detail]
    ledger,        \* history: per product [start, sold, updated, hazard]
    requested,     \* history: persisted order id -> number of items its request asked for
    users,         \* table user: id -> [email, role, hashed_password]
    user_seq       \* uuid4 values handed out for users so far

store == <<products, clients, orders, order_items, product_seq, client_seq, order_seq>>
session == <<pc, req, idx, cache, oid>>
history == <<ledger, requested>>
accounts == <<users, user_seq>>
vars == <<store, session, response, history, accounts>>

Response(status, detail) == [status |-> status, detail |-> detail]

Remove(f, k) == [x \in (DOMAIN f) \ {k} |-> f[x]]

\* the rows of order_item that belong to an order (Order.items)
ItemsOf(o) == {i \in order_items : i.order_id = o}

\* the rows of order_item, priced from the product instead of the request
ItemRows_ProductPrice(o, items) ==
    {[order_id |-> o, pos |-> k, product_id |-> items[k].product_id,
      quantity |-> items[k].quantity,
      unit_price |-> products[items[k].product_id].sale_price,
      section |-> items[k].section] : k \in 1..Len(items)}

\* the rows of order_item a request's items become
ItemRows(o, items) ==
    {[order_id |-> o, pos |-> k, product_id |-> items[k].product_id,
      quantity |-> items[k].quantity, unit_price |-> items[k].unit_price,
      section |-> items[k].section] : k \in 1..Len(items)}

RECURSIVE SumQty(_, _, _)
\* total quantity of the items of a list, from position i on, that name product p
SumQty(items, p, i) ==
    IF i > Len(items) THEN 0
    ELSE (IF items[i].product_id = p THEN items[i].quantity ELSE 0)
         + SumQty(items, p, i + 1)

\* The ledger follows a product from its creation for as long as no
\* update_product or delete_product touches it: `start` is the stock it was
\* created with, `sold` the quantities of all order items committed for it,
\* `hazard` whether some committed request named it in two items or was
\* committed while another request had already validated it.  `updated`
\* closes the ledger.
NoLedger == [start |-> 0, sold |-> 0, updated |-> FALSE, hazard |-> FALSE]
ClosedLedger == [start |-> 0, sold |-> 0, updated |-> TRUE, hazard |-> FALSE]

\* core.security: a hash is a value that only its own password verifies
get_password_hash(password) == <<"hash", password>>
verify_password(plain_password, hashed_password) ==
    hashed_password = get_password_hash(plain_password)

\* init_db: the administrator of the settings is created with the tables
FirstAdmin ==
    [email |-> "admin@example.com", role |-> ADMIN, is_active |-> TRUE,
     hashed_password |-> get_password_hash("password1")]

Init ==
    /\ products = EmptyMap
    /\ clients = EmptyMap
    /\ orders = EmptyMap
    /\ order_items = {}
    /\ product_seq = 0
    /\ client_seq = 0
    /\ order_seq = 0
    /\ pc = [w \in Workers |-> "idle"]
    /\ req = [w \in Workers |-> NoOrderCreate]
    /\ idx = [w \in Workers |-> 0]
    /\ cache = [w \in Workers |-> EmptyMap]
    /\ oid = [w \in Workers |-> 0]
    /\ response = Response(0, 0)
    /\ ledger = [p \in ProductIds |-> NoLedger]
    /\ requested = EmptyMap
    /\ users = (1 :> FirstAdmin)
    /\ user_seq = 1

\* ------------------------------------------------------- clients, products
\* create_client without the SELECT by cpf
CreateClientOutcome_NoCpfCheck(client_in) ==
    IF \E c \in DOMAIN clients : clients[c].email = client_in.email
    THEN [status |-> 400, detail |-> "Email already registered", clients |-> clients]
    ELSE [status |-> 200, detail |-> "",
          clients |-> (client_seq + 1 :> client_in) @@ clients]

\* create_client: what it answers and leaves in table client
CreateClientOutcome(client_in) ==
    IF \E c \in DOMAIN clients : clients[c].email = client_in.email
    THEN [status |-> 400, detail |-> "Email already registered", clients |-> clients]
    ELSE IF \E c \in DOMAIN clients : clients[c].cpf = client_in.cpf
    THEN [status |-> 400, detail |-> "CPF already registered", clients |-> clients]
    ELSE [status |-> 200, detail |-> "",
          clients |-> (client_seq + 1 :> client_in) @@ clients]

create_client(client_in) ==
    LET out == CreateClientOutcome(client_in) IN
    /\ client_seq < MaxClientRows
    /\ out.status = 200
    /\ client_seq' = client_seq + 1
    /\ clients' = out.clients
    /\ UNCHANGED <<products, orders, order_items, product_seq, order_seq, session, response, accounts, history>>

\* `if client_update.email and client_update.email != client.email`, then the
\* SELECT of a client that holds the email
EmailTaken(client_id, client_update) ==
    /\ client_update.email \notin {Unset, ""}
    /\ client_update.email # clients[client_id].email
    /\ \E c \in DOMAIN clients : clients[c].email = client_update.email

\* the same test for the cpf
CpfTaken(client_id, client_update) ==
    /\ client_update.cpf \notin {Unset, ""}
    /\ client_update.cpf # clients[client_id].cpf
    /\ \E c \in DOMAIN clients : clients[c].cpf = client_update.cpf

\* update_client: what it answers and leaves in table client
UpdateClientOutcome(client_id, client_update) ==
    IF client_id \notin DOMAIN clients
    THEN [status |-> 404, detail |-> "Client not found", clients |-> clients]
    ELSE IF EmailTaken(client_id, client_update)
    THEN [status |-> 400, detail |-> "Email already registered", clients |-> clients]
    ELSE IF CpfTaken(client_id, client_update)
    THEN [status |-> 400, detail |-> "CPF already registered", clients |-> clients]
    ELSE [status |-> 200, detail |-> "",
          clients |-> [clients EXCEPT ![client_id] =
              [email |-> IF client_update.email # Unset THEN client_update.email ELSE @.email,
               cpf |-> IF client_update.cpf # Unset THEN client_update.cpf ELSE @.cpf]]]

update_client(client_id, client_update) ==
    LET out == UpdateClientOutcome(client_id, client_update) IN
    /\ out.status = 200
    /\ clients' = out.clients
    /\ UNCHANGED <<products, orders, order_items, product_seq, client_seq, order_seq, session, response, accounts, history>>

\* read_client: the client, or 404
ReadClientOutcome(client_id) ==
    IF client_id \notin DOMAIN clients
    THEN [status |-> 404, detail |-> "Client not found"]
    ELSE [status |-> 200, detail |-> "", client |-> clients[client_id]]

delete_client(client_id) ==
    /\ client_id \in DOMAIN clients             \* else 404
    \* order.client_id references client.id: the store refuses the DELETE
    /\ ~ \E o \in DOMAIN orders : orders[o].client_id = client_id
    /\ clients' = Remove(clients, client_id)
    /\ UNCHANGED <<products, orders, order_items, product_seq, client_seq, order_seq, session, response, accounts, history>>

\* create_product: what it answers and leaves in table product
CreateProductOutcome(product_in) ==
    IF \E p \in DOMAIN products : products[p].barcode = product_in.barcode
    THEN [status |-> 400, detail |-> "Barcode already in use", products |-> products]
    ELSE [status |-> 201, detail |-> "",
          products |-> (product_seq + 1 :> product_in) @@ products]

create_product(product_in) ==
    LET out == CreateProductOutcome(product_in) IN
    /\ product_seq < MaxProducts
    /\ out.status = 201
    /\ product_seq' = product_seq + 1
    /\ products' = out.products
    /\ ledger' = [ledger EXCEPT ![product_seq + 1].start = product_in.initial_stock]
    /\ UNCHANGED <<clients, orders, order_items, client_seq, order_seq, session, response, accounts, requested>>

\* `if product_up.barcode and product_up.barcode != product.barcode`, then the
\* SELECT of a product with another id that holds the barcode
BarcodeTaken(product_id, product_up) ==
    /\ product_up.barcode \notin {Unset, ""}
    /\ product_up.barcode # products[product_id].barcode
    /\ \E p \in DOMAIN products \ {product_id} : products[p].barcode = product_up.barcode

\* `product.sqlmodel_update(update_data)`: the supplied fields replace the stored ones
Updated(product, product_up) ==
    [barcode |-> IF product_up.barcode # Unset THEN product_up.barcode ELSE product.barcode,
     initial_stock |-> IF product_up.initial_stock # NoStock
                       THEN product_up.initial_stock ELSE product.initial_stock,
     category |-> IF product_up.category # Unset THEN product_up.category ELSE product.category,
     sale_price |-> IF product_up.sale_price # NoPrice
                    THEN product_up.sale_price ELSE product.sale_price]

\* update_product: what it answers and leaves in table product
UpdateProductOutcome(product_id, product_up) ==
    IF product_id \notin DOMAIN products
    THEN [status |-> 404, detail |-> "Product not found", products |-> products]
    ELSE IF BarcodeTaken(product_id, product_up)
    THEN [status |-> 400, detail |-> "Barcode already in use", products |-> products]
    ELSE [status |-> 200, detail |-> "",
          products |-> [products EXCEPT ![product_id] = Updated(@, product_up)]]

update_product(product_id, product_up) ==
    LET out == UpdateProductOutcome(product_id, product_up) IN
    /\ out.status = 200
    /\ products' = out.products
    /\ ledger' = IF product_up.initial_stock # NoStock
                 THEN [ledger EXCEPT ![product_id] = ClosedLedger]
                 ELSE ledger
    /\ UNCHANGED <<clients, orders, order_items, product_seq, client_seq, order_seq, session, response, accounts, requested>>

\* ---- create_product and update_product, statement by statement
\* the SELECT by barcode found no product: the handler goes on to the INSERT
create_product_select(w, product_in) ==
    /\ pc[w] = "idle"
    /\ product_seq + Cardinality({v \in Workers : pc[v] = "insert_product"}) < MaxProducts
    /\ CreateProductOutcome(product_in).status = 201
    /\ pc' = [pc EXCEPT ![w] = "insert_product"]
    /\ req' = [req EXCEPT ![w] = product_in]
    /\ UNCHANGED <<store, idx, cache, oid, response, accounts, history>>

\* session.add(db_product); session.commit()
create_product_insert(w) ==
    /\ pc[w] = "insert_product"
    /\ products' = (product_seq + 1 :> req[w]) @@ products
    /\ product_seq' = product_seq + 1
    /\ ledger' = [ledger EXCEPT ![product_seq + 1].start = req[w].initial_stock]
    /\ pc' = [pc EXCEPT ![w] = "idle"]
    /\ req' = [req EXCEPT ![w] = NoOrderCreate]
    /\ UNCHANGED <<clients, orders, order_items, client_seq, order_seq, idx, cache, oid,
                   response, accounts, requested>>

\* the product was found and the SELECT by barcode found no other product:
\* the handler goes on to write the supplied fields
update_product_select(w, product_id, product_up) ==
    /\ pc[w] = "idle"
    /\ UpdateProductOutcome(product_id, product_up).status = 200
    /\ pc' = [pc EXCEPT ![w] = "update_product"]
    /\ req' = [req EXCEPT ![w] = [product_id |-> product_id, product_up |-> product_up]]
    /\ UNCHANGED <<store, idx, cache, oid, response, accounts, history>>

\* product.sqlmodel_update(update_data); session.commit()
update_product_commit(w) ==
    /\ pc[w] = "update_product"
    /\ req[w].product_id \in DOMAIN products
    /\ products' = [products EXCEPT ![req[w].product_id] = Updated(@, req[w].product_up)]
    /\ ledger' = IF req[w].product_up.initial_stock # NoStock
                 THEN [ledger EXCEPT ![req[w].product_id] = ClosedLedger]
                 ELSE ledger
    /\ pc' = [pc EXCEPT ![w] = "idle"]
    /\ req' = [req EXCEPT ![w] = NoOrderCreate]
    /\ UNCHANGED <<clients, orders, order_items, product_seq, client_seq, order_seq, idx,
                   cache, oid, response, accounts, requested>>

\* delete_product on a store that does not hold order_item.product_id to
\* reference a product
delete_product_Unreferenced(product_id) ==
    /\ product_id \in DOMAIN products
    /\ products' = Remove(products, product_id)
    /\ ledger' = [ledger EXCEPT ![product_id] = ClosedLedger]
    /\ UNCHANGED <<clients, orders, order_items, product_seq, client_seq, order_seq, session, response, accounts, requested>>

delete_product(product_id) ==
    /\ product_id \in DOMAIN products           \* else 404
    \* order_item.product_id references product.id: the store refuses the DELETE
    /\ ~ \E i \in order_items : i.product_id = product_id
    /\ products' = Remove(products, product_id)
    /\ ledger' = [ledger EXCEPT ![product_id] = ClosedLedger]
    /\ UNCHANGED <<clients, orders, order_items, product_seq, client_seq, order_seq, session, response, accounts, requested>>

\* ------------------------------------------------------------ create_order
\* `product.initial_stock < item.quantity`
\* the comparison with `<=`: an item asking for all that is left is refused
InsufficientStock_Strict(stock, quantity) == stock <= quantity

\* the comparison off by one the other way: one unit too many is let through
InsufficientStock_Lenient(stock, quantity) == stock + 1 < quantity

InsufficientStock(stock, quantity) == stock < quantity

RECURSIVE PrePass_NoExistenceCheck(_, _, _)
\* the validation loop without `if not product`: a missing product is skipped
PrePass_NoExistenceCheck(prods, items, i) ==
    IF i > Len(items) THEN [status |-> 0, detail |-> 0]
    ELSE IF items[i].product_id \notin DOMAIN prods
    THEN PrePass_NoExistenceCheck(prods, items, i + 1)
    ELSE IF prods[items[i].product_id].initial_stock < items[i].quantity
    THEN [status |-> 400, detail |-> items[i].product_id]
    ELSE PrePass_NoExistenceCheck(prods, items, i + 1)

RECURSIVE PrePass(_, _, _)
\* the validation loop over order_in.items against the product rows `prods`:
\* the first item that fails decides the error; status 0 when every item passes
PrePass(prods, items, i) ==
    IF i > Len(items) THEN [status |-> 0, detail |-> 0]
    ELSE IF items[i].product_id \notin DOMAIN prods
    THEN [status |-> 404, detail |-> items[i].product_id]
    ELSE IF InsufficientStock(prods[items[i].product_id].initial_stock, items[i].quantity)
    THEN [status |-> 400, detail |-> items[i].product_id]
    ELSE PrePass(prods, items, i + 1)

\* one unit taken per item, whatever its quantity
Decrement_OneUnit(stock, quantity) == stock - 1

\* `product.initial_stock -= item.quantity`
Decrement(stock, quantity) == stock - quantity

\* the second loop changing objects that are never written back
MutationPass_NotWritten(prods, items, i) == prods

RECURSIVE MutationPass(_, _, _)
\* the second loop: every item's quantity taken from its product, in order
MutationPass(prods, items, i) ==
    IF i > Len(items) THEN prods
    ELSE MutationPass(
             [prods EXCEPT ![items[i].product_id].initial_stock =
                               Decrement(@, items[i].quantity)],
             items, i + 1)

\* the products a list of items names
Named(items) == {items[k].product_id : k \in 1..Len(items)}

\* worker w has read product p in its validation loop and has not answered yet
PastValidation(w, p) ==
    \/ pc[w] = "validate" /\ p \in DOMAIN cache[w]
    \/ pc[w] \in {"insert_order", "mutate", "commit_items"} /\ p \in Named(req[w].items)

\* the ledger after worker w (0: no worker, the request ran alone) committed items
Sold(w, items) ==
    [p \in ProductIds |->
        IF ledger[p].updated \/ p \notin Named(items) THEN ledger[p]
        ELSE [ledger[p] EXCEPT
                !.sold = @ + SumQty(items, p, 1),
                !.hazard = \/ @
                           \/ Cardinality({k \in 1..Len(items) : items[k].product_id = p}) > 1
                           \/ \E w2 \in Workers \ {w} : PastValidation(w2, p)]]

\* what the handler answers and leaves in the store when it runs to
\* completion with no other request in between
CreateOrderOutcome(order_in) ==
    LET v == PrePass(products, order_in.items, 1)
        untouched == [products |-> products, orders |-> orders,
                      order_items |-> order_items, order_seq |-> order_seq]
    IN  IF v.status # 0
        THEN [response |-> Response(v.status, v.detail)] @@ untouched
        ELSE IF order_in.client_id \notin DOMAIN clients
        THEN \* order.client_id references client.id: the first commit fails
             [response |-> Response(500, 0)] @@ untouched
        ELSE [response |-> Response(201, order_seq + 1),
              order_seq |-> order_seq + 1,
              orders |-> (order_seq + 1 :> [client_id |-> order_in.client_id,
                                            status |-> "pending"]) @@ orders,
              products |-> MutationPass(products, order_in.items, 1),
              order_items |-> order_items \cup ItemRows(order_seq + 1, order_in.items)]

\* the whole handler as one step
create_order(order_in) ==
    LET out == CreateOrderOutcome(order_in) IN
    /\ \A w \in Workers : pc[w] = "idle"
    /\ out.order_seq <= MaxOrders
    /\ response' = out.response
    /\ products' = out.products
    /\ orders' = out.orders
    /\ order_items' = out.order_items
    /\ order_seq' = out.order_seq
    /\ IF out.response.status = 201
       THEN /\ ledger' = Sold(0, order_in.items)
            /\ requested' = (out.order_seq :> Len(order_in.items)) @@ requested
       ELSE UNCHANGED history
    /\ UNCHANGED <<clients, product_seq, client_seq, session, accounts>>

\* ---- create_order, statement by statement (READ COMMITTED)
\* the request is answered with `status`: the Session is closed, what it held
\* is dropped (the responses of concurrent requests are not recorded)
Answer(w, status) ==
    /\ pc' = [pc EXCEPT ![w] = "idle"]
    /\ req' = [req EXCEPT ![w] = NoOrderCreate]
    /\ idx' = [idx EXCEPT ![w] = 0]
    /\ cache' = [cache EXCEPT ![w] = EmptyMap]
    /\ oid' = [oid EXCEPT ![w] = 0]

\* session.get(Product, id): the object of the identity map when it holds one,
\* else the committed row, else None
Found(w, p) == p \in DOMAIN cache[w] \/ p \in DOMAIN products
StockSeen(w, p) == IF p \in DOMAIN cache[w] THEN cache[w][p] ELSE products[p].initial_stock

\* the loop index moves on; after the last item the handler reaches `after`
Advance(w, after) ==
    IF idx[w] < Len(req[w].items)
    THEN idx' = [idx EXCEPT ![w] = @ + 1] /\ UNCHANGED pc
    ELSE idx' = [idx EXCEPT ![w] = 1] /\ pc' = [pc EXCEPT ![w] = after]

create_order_begin(w, order_in) ==
    /\ pc[w] = "idle"
    /\ pc' = [pc EXCEPT ![w] = IF Len(order_in.items) = 0 THEN "insert_order" ELSE "validate"]
    /\ req' = [req EXCEPT ![w] = order_in]
    /\ idx' = [idx EXCEPT ![w] = 1]
    /\ UNCHANGED <<store, cache, oid, response, accounts, history>>

\* one turn of the validation loop
create_order_validate(w) ==
    LET item == req[w].items[idx[w]]
        p == item.product_id
    IN  /\ pc[w] = "validate"
        /\ IF ~Found(w, p) THEN Answer(w, 404)
           ELSE IF InsufficientStock(StockSeen(w, p), item.quantity) THEN Answer(w, 400)
           ELSE /\ cache' = [cache EXCEPT ![w] = (p :> StockSeen(w, p)) @@ @]
                /\ Advance(w, "insert_order")
                /\ UNCHANGED <<req, oid>>
        /\ UNCHANGED <<store, response, accounts, history>>

\* session.add(db_order); session.commit(); session.refresh(db_order)
create_order_insert_order(w) ==
    /\ pc[w] = "insert_order"
    /\ IF req[w].client_id \notin DOMAIN clients
       THEN /\ Answer(w, 500)
            /\ UNCHANGED <<orders, order_seq, requested>>
       ELSE /\ order_seq < MaxOrders
            /\ order_seq' = order_seq + 1
            /\ orders' = (order_seq + 1 :> [client_id |-> req[w].client_id,
                                            status |-> "pending"]) @@ orders
            /\ requested' = (order_seq + 1 :> Len(req[w].items)) @@ requested
            /\ oid' = [oid EXCEPT ![w] = order_seq + 1]
            \* the commit expires every object of the Session
            /\ cache' = [cache EXCEPT ![w] = EmptyMap]
            /\ pc' = [pc EXCEPT ![w] = IF Len(req[w].items) = 0 THEN "commit_items" ELSE "mutate"]
            /\ UNCHANGED <<req, idx>>
    /\ UNCHANGED <<products, clients, order_items, product_seq, client_seq, response, accounts, ledger>>

\* one turn of the second loop: the decrement is taken in memory
create_order_mutate(w) ==
    LET item == req[w].items[idx[w]]
        p == item.product_id
    IN  /\ pc[w] = "mutate"
        /\ IF ~Found(w, p) THEN Answer(w, 500)   \* None has no initial_stock
           ELSE /\ cache' = [cache EXCEPT ![w] =
                                (p :> Decrement(StockSeen(w, p), item.quantity)) @@ @]
                /\ Advance(w, "commit_items")
                /\ UNCHANGED <<req, oid>>
        /\ UNCHANGED <<store, response, accounts, history>>

\* the second session.commit(): the UPDATEs of the products and the INSERTs
\* of the items, refused as a whole when a row they depend on is gone
create_order_commit_items(w) ==
    /\ pc[w] = "commit_items"
    /\ IF oid[w] \notin DOMAIN orders \/ ~(DOMAIN cache[w] \subseteq DOMAIN products)
       THEN /\ Answer(w, 500)
            /\ UNCHANGED <<products, order_items, ledger>>
       ELSE /\ products' = [p \in DOMAIN products |->
                               IF p \in DOMAIN cache[w]
                               THEN [products[p] EXCEPT !.initial_stock = cache[w][p]]
                               ELSE products[p]]
            /\ order_items' = order_items \cup ItemRows(oid[w], req[w].items)
            /\ ledger' = Sold(w, req[w].items)
            /\ Answer(w, 201)
    /\ UNCHANGED <<clients, orders, product_seq, client_seq, order_seq, response, accounts, requested>>

\* ---- create_order, transaction by transaction (serializable transactions)
\* the first transaction: the validation loop and the INSERT of the order
create_order_txn1(w, order_in) ==
    LET v == PrePass(products, order_in.items, 1) IN
    /\ pc[w] = "idle"
    /\ IF v.status # 0
       THEN UNCHANGED <<orders, order_seq, requested, session>>
       ELSE IF order_in.client_id \notin DOMAIN clients
       THEN UNCHANGED <<orders, order_seq, requested, session>>
       ELSE /\ order_seq < MaxOrders
            /\ order_seq' = order_seq + 1
            /\ orders' = (order_seq + 1 :> [client_id |-> order_in.client_id,
                                            status |-> "pending"]) @@ orders
            /\ requested' = (order_seq + 1 :> Len(order_in.items)) @@ requested
            /\ oid' = [oid EXCEPT ![w] = order_seq + 1]
            /\ req' = [req EXCEPT ![w] = order_in]
            /\ idx' = [idx EXCEPT ![w] = 1]
            /\ pc' = [pc EXCEPT ![w] = IF Len(order_in.items) = 0 THEN "commit_items" ELSE "mutate"]
            /\ UNCHANGED cache
    /\ UNCHANGED <<products, clients, order_items, product_seq, client_seq, response, accounts, ledger>>

\* the second transaction: the second loop and the INSERTs of the items
create_order_txn2(w) ==
    /\ pc[w] \in {"mutate", "commit_items"}
    /\ idx[w] = 1
    /\ cache[w] = EmptyMap
    /\ IF oid[w] \notin DOMAIN orders \/ ~(Named(req[w].items) \subseteq DOMAIN products)
       THEN /\ Answer(w, 500)
            /\ UNCHANGED <<products, order_items, ledger>>
       ELSE /\ products' = MutationPass(products, req[w].items, 1)
            /\ order_items' = order_items \cup ItemRows(oid[w], req[w].items)
            /\ ledger' = Sold(w, req[w].items)
            /\ Answer(w, 201)
    /\ UNCHANGED <<clients, orders, product_seq, client_seq, order_seq, response, accounts, requested>>

\* ------------------------------------------------- update_order, delete_order
\* `if order_up.status: order.status = order_up.status`: a falsy status
\* (the empty string, or none supplied) leaves the stored one
StatusAfter(current, supplied) == IF supplied # "" THEN supplied ELSE current

\* `raise HTTPException(status_code=404, detail="Order not found")`: what a
\* handler answers, and leaves in the store, when session.get(Order, id) is None
OrderNotFound ==
    [status |-> 404, detail |-> "Order not found",
     orders |-> orders, order_items |-> order_items]

\* read_order: the order with its items, or 404
ReadOrderOutcome(order_id) ==
    IF order_id \notin DOMAIN orders THEN OrderNotFound
    ELSE [status |-> 200, detail |-> "", orders |-> orders, order_items |-> order_items]

\* update_order without `if not order`: the update is applied to None
UpdateOrderOutcome_NoLookup(order_id, status) ==
    [status |-> IF order_id \in DOMAIN orders THEN 200 ELSE 500, detail |-> "",
     orders |-> [o \in DOMAIN orders |->
                    IF o = order_id
                    THEN [orders[o] EXCEPT !.status = StatusAfter(@, status)]
                    ELSE orders[o]],
     order_items |-> order_items]

\* update_order: what it answers and leaves in the store
UpdateOrderOutcome(order_id, status) ==
    IF order_id \notin DOMAIN orders THEN OrderNotFound
    ELSE [status |-> 200, detail |-> "",
          orders |-> [orders EXCEPT ![order_id].status = StatusAfter(@, status)],
          order_items |-> order_items]

update_order(order_id, status) ==
    LET out == UpdateOrderOutcome(order_id, status) IN
    /\ out.status = 200
    /\ orders' = out.orders
    /\ UNCHANGED <<products, clients, order_items, product_seq, client_seq, order_seq, session, response, accounts, history>>

\* delete_order without the bulk delete of the order's items
delete_order_KeepItems(order_id) ==
    /\ order_id \in DOMAIN orders
    /\ orders' = Remove(orders, order_id)
    /\ requested' = Remove(requested, order_id)
    /\ UNCHANGED <<products, clients, order_items, product_seq, client_seq, order_seq, session, response, accounts, ledger>>

\* delete_order giving the quantities of the order's items back to the products
delete_order_Restock(order_id) ==
    /\ order_id \in DOMAIN orders
    /\ products' = [p \in DOMAIN products |->
           [products[p] EXCEPT !.initial_stock = @
               + Cardinality(UNION {{<<i.pos, u>> : u \in 1..i.quantity} :
                                    i \in {j \in ItemsOf(order_id) : j.product_id = p}})]]
    /\ order_items' = order_items \ ItemsOf(order_id)
    /\ orders' = Remove(orders, order_id)
    /\ requested' = Remove(requested, order_id)
    /\ UNCHANGED <<clients, product_seq, client_seq, order_seq, session, response, accounts, ledger>>

\* delete_order: what it answers and leaves in the store
DeleteOrderOutcome(order_id) ==
    IF order_id \notin DOMAIN orders THEN OrderNotFound
    ELSE [status |-> 204, detail |-> "",
          orders |-> Remove(orders, order_id),
          order_items |-> order_items \ ItemsOf(order_id)]

delete_order(order_id) ==
    LET out == DeleteOrderOutcome(order_id) IN
    /\ out.status = 204
    /\ order_items' = out.order_items
    /\ orders' = out.orders
    /\ requested' = Remove(requested, order_id)
    /\ UNCHANGED <<products, clients, product_seq, client_seq, order_seq, session, response, accounts, ledger>>

\* ----------------------------------------------------------- list_products
\* the WHERE clauses list_products adds to `select(Product)`
Selected(q) ==
    {p \in DOMAIN products :
        /\ (q.category # Unset /\ q.category # "") => products[p].category = q.category
        /\ q.min_price # NoPrice => products[p].sale_price >= q.min_price
        /\ q.max_price # NoPrice => products[p].sale_price <= q.max_price
        /\ q.available = "true" => products[p].initial_stock > 0
        /\ q.available = "false" => products[p].initial_stock <= 0}

\* `query.offset(skip).limit(limit)` with no ORDER BY: a page is any set of
\* selected products of the page's size
ListProductsPages(q) ==
    LET rows == Selected(q)
        left == IF Cardinality(rows) > q.skip THEN Cardinality(rows) - q.skip ELSE 0
        size == IF left > q.limit THEN q.limit ELSE left
    IN  {page \in SUBSET rows : Cardinality(page) = size}

\* ------------------------------------------------------------- list_orders
\* `query.join(Order.items).where(OrderItem.section == section)`: one row of
\* the result for every item of that section, each carrying its order
JoinedRows(section) == {i \in order_items : i.section = section}

\* `query.offset(skip).limit(limit)` with no ORDER BY: the store returns the
\* rows in any order, so a page is any set of joined rows of the page's size
ListOrdersPages(section, skip, limit) ==
    LET rows == JoinedRows(section)
        left == IF Cardinality(rows) > skip THEN Cardinality(rows) - skip ELSE 0
        size == IF left > limit THEN limit ELSE left
    IN  {page \in SUBSET rows : Cardinality(page) = size}

\* the orders a page lists (`for o in orders`)
Listed(page) == {i.order_id : i \in page}

\* ------------------------------------------------------------------- users
\* every other table and the sessions of the order requests
reststate == <<store, session, response, history>>

\* get_current_user without the test of is_active
get_current_user_NoActiveCheck(token) ==
    IF token \notin DOMAIN users
    THEN [status |-> 404, detail |-> "User Not Found", user |-> 0]
    ELSE [status |-> 200, detail |-> "", user |-> token]

\* get_current_user: the user a bearer token resolves to (0: none); the token
\* carries the id of the user it was issued to
get_current_user(token) ==
    IF token \notin DOMAIN users
    THEN [status |-> 404, detail |-> "User Not Found", user |-> 0]
    ELSE IF ~users[token].is_active
    THEN [status |-> 400, detail |-> "Inactive user", user |-> 0]
    ELSE [status |-> 200, detail |-> "", user |-> token]

\* Depends(get_current_user): the route answers what the dependency raised, and
\* what its handler answers only when the dependency returned a user
Authenticated(token, out) ==
    IF get_current_user(token).status # 200
    THEN [status |-> get_current_user(token).status,
          detail |-> get_current_user(token).detail]
    ELSE out

\* user_crud.get_user_by_email: the ids of the users that hold the email
get_user_by_email(email) == {u \in DOMAIN users : users[u].email = email}

\* user_crud.create_user: the row of a new user
create_user(user_create) ==
    [email |-> user_create.email, role |-> user_create.role, is_active |-> TRUE,
     hashed_password |-> get_password_hash(user_create.password)]

\* register_user: what it answers and leaves in table user
RegisterUserOutcome(user_in) ==
    IF get_user_by_email(user_in.email) # {}
    THEN [status |-> 400, detail |-> "The user with this email already exists in the system",
          users |-> users]
    ELSE [status |-> 200, detail |-> "",
          users |-> (user_seq + 1 :> create_user([email |-> user_in.email, role |-> CLIENT,
                                                  password |-> user_in.password])) @@ users]

register_user(user_in) ==
    LET out == RegisterUserOutcome(user_in) IN
    /\ user_seq < MaxUsers
    /\ out.status = 200
    /\ users' = out.users
    /\ user_seq' = user_seq + 1
    /\ UNCHANGED reststate

\* the email of the body is held by a user other than `user_id`
EmailConflict(user_id, email) ==
    /\ email # Unset
    /\ \E existing_user \in get_user_by_email(email) : existing_user # user_id

\* update_user_me without the lookup of the email
UpdateUserMeOutcome_NoEmailCheck(current_user, user_in) ==
    [status |-> 200, detail |-> "",
     users |-> [users EXCEPT ![current_user].email =
                   IF user_in.email # Unset THEN user_in.email ELSE @]]

\* update_user_me: what it answers and leaves in table user
UpdateUserMeOutcome(current_user, user_in) ==
    IF EmailConflict(current_user, user_in.email)
    THEN [status |-> 409, detail |-> "User with this email already exists", users |-> users]
    ELSE [status |-> 200, detail |-> "",
          users |-> [users EXCEPT ![current_user].email =
                        IF user_in.email # Unset THEN user_in.email ELSE @]]

update_user_me(current_user, user_in) ==
    LET out == Authenticated(current_user, UpdateUserMeOutcome(current_user, user_in)) IN
    /\ out.status = 200
    /\ users' = out.users
    /\ UNCHANGED <<user_seq, reststate>>

\* update_password_me without the comparison of the two passwords
UpdatePasswordOutcome_SameAllowed(current_user, body) ==
    IF ~verify_password(body.current_password, users[current_user].hashed_password)
    THEN [status |-> 400, detail |-> "Incorrect password", users |-> users]
    ELSE [status |-> 200, detail |-> "",
          users |-> [users EXCEPT ![current_user].hashed_password =
                        get_password_hash(body.new_password)]]

\* update_password_me: what it answers and leaves in table user
UpdatePasswordOutcome(current_user, body) ==
    IF ~verify_password(body.current_password, users[current_user].hashed_password)
    THEN [status |-> 400, detail |-> "Incorrect password", users |-> users]
    ELSE IF body.current_password = body.new_password
    THEN [status |-> 400, detail |-> "New password cannot be the same as the current one",
          users |-> users]
    ELSE [status |-> 200, detail |-> "",
          users |-> [users EXCEPT ![current_user].hashed_password =
                        get_password_hash(body.new_password)]]

update_password_me(current_user, body) ==
    LET out == Authenticated(current_user, UpdatePasswordOutcome(current_user, body)) IN
    /\ out.status = 200
    /\ users' = out.users
    /\ UNCHANGED <<user_seq, reststate>>

\* delete_user_me: what it answers and leaves in table user
DeleteUserMeOutcome(current_user) ==
    [status |-> 200, detail |-> "", users |-> Remove(users, current_user)]

delete_user_me(current_user) ==
    LET out == Authenticated(current_user, DeleteUserMeOutcome(current_user)) IN
    /\ out.status = 200
    /\ users' = out.users
    /\ UNCHANGED <<user_seq, reststate>>

\* get_current_admin_user: the 403 of the administrator-only routes
NotEnoughPrivileges ==
    [status |-> 403, detail |-> "The user doesn't have enough privileges", users |-> users]

\* read_user_by_id without the test of the role
ReadUserByIdOutcome_NoRoleCheck(current_user, user_id) ==
    IF user_id \in DOMAIN users
    THEN [status |-> 200, detail |-> "", user |-> user_id]
    ELSE [status |-> 500, detail |-> "", user |-> 0]

\* read_user_by_id: the record it returns (0: none) and what it answers; a
\* None leaving the route fails the response model
ReadUserByIdOutcome(current_user, user_id) ==
    IF user_id = current_user
    THEN [status |-> 200, detail |-> "", user |-> user_id]
    ELSE IF users[current_user].role # ADMIN
    THEN [status |-> 403, detail |-> "The user doesn't have enough privileges", user |-> 0]
    ELSE IF user_id \in DOMAIN users
    THEN [status |-> 200, detail |-> "", user |-> user_id]
    ELSE [status |-> 500, detail |-> "", user |-> 0]

\* read_users: the records it lists
ReadUsersOutcome(current_user) ==
    IF users[current_user].role # ADMIN
    THEN [status |-> 403, detail |-> "The user doesn't have enough privileges", data |-> {}]
    ELSE [status |-> 200, detail |-> "", data |-> DOMAIN users]

\* user_crud.update_user: the supplied fields replace the stored ones
crud_update_user(db_user, user_in) ==
    [db_user EXCEPT !.email = IF user_in.email # Unset THEN user_in.email ELSE @,
                    !.role = IF user_in.role # Unset THEN user_in.role ELSE @,
                    !.is_active = IF user_in.is_active # Unset
                                  THEN user_in.is_active = "true" ELSE @]

\* update_user: what it answers and leaves in table user
UpdateUserOutcome(current_user, user_id, user_in) ==
    IF users[current_user].role # ADMIN THEN NotEnoughPrivileges
    ELSE IF user_id \notin DOMAIN users
    THEN [status |-> 404, detail |-> "The user with this id does not exist in the system",
          users |-> users]
    ELSE IF EmailConflict(user_id, user_in.email)
    THEN [status |-> 409, detail |-> "User with this email already exists", users |-> users]
    ELSE [status |-> 200, detail |-> "",
          users |-> [users EXCEPT ![user_id] = crud_update_user(@, user_in)]]

update_user(current_user, user_id, user_in) ==
    LET out == Authenticated(current_user, UpdateUserOutcome(current_user, user_id, user_in)) IN
    /\ out.status = 200
    /\ users' = out.users
    /\ UNCHANGED <<user_seq, reststate>>

\* delete_user without the refusal of the administrator's own id
DeleteUserOutcome_SelfAllowed(current_user, user_id) ==
    IF users[current_user].role # ADMIN THEN NotEnoughPrivileges
    ELSE IF user_id \notin DOMAIN users
    THEN [status |-> 404, detail |-> "User not found", users |-> users]
    ELSE [status |-> 200, detail |-> "", users |-> Remove(users, user_id)]

\* delete_user: what it answers and leaves in table user
DeleteUserOutcome(current_user, user_id) ==
    IF users[current_user].role # ADMIN THEN NotEnoughPrivileges
    ELSE IF user_id \notin DOMAIN users
    THEN [status |-> 404, detail |-> "User not found", users |-> users]
    ELSE IF user_id = current_user
    THEN [status |-> 403, detail |-> "Super users are not allowed to delete themselves",
          users |-> users]
    ELSE [status |-> 200, detail |-> "", users |-> Remove(users, user_id)]

delete_user(current_user, user_id) ==
    LET out == Authenticated(current_user, DeleteUserOutcome(current_user, user_id)) IN
    /\ out.status = 200
    /\ users' = out.users
    /\ UNCHANGED <<user_seq, reststate>>

\* ------------------------------------------------------------ specifications
StoreOps ==
    \/ \E n \in ClientIds \cap {client_seq + 1} : create_client(Registered(n))
    \/ \E c \in ClientIds : delete_client(c)
    \/ \E s \in StockInputs : create_product(Stocked(product_seq + 1, s))
    \/ \E p \in ProductIds, s \in StockInputs : update_product(p, Restocked(s))
    \/ \E p \in ProductIds : delete_product(p)
    \/ \E o \in OrderIds, s \in OrderUpdate : update_order(o, s)
    \/ \E o \in OrderIds : delete_order(o)

\* one request at a time
NextSeq ==
    \/ StoreOps
    \/ \E order_in \in OrderCreate : create_order(order_in)

SpecSeq == Init /\ [][NextSeq]_vars

\* the operations that run beside the concurrent create_order requests
ConcOps ==
    \/ \E n \in ClientIds \cap {client_seq + 1} : create_client(Registered(n))
    \/ \E s \in StockInputs : create_product(Stocked(product_seq + 1, s))
    \/ \E p \in ProductIds, s \in StockInputs : update_product(p, Restocked(s))
    \/ \E p \in ProductIds : delete_product(p)
    \/ \E o \in OrderIds : delete_order(o)

\* concurrent requests, READ COMMITTED
Next ==
    \/ ConcOps
    \/ \E w \in Workers, order_in \in ConcOrderCreate : create_order_begin(w, order_in)
    \/ \E w \in Workers : create_order_validate(w)
    \/ \E w \in Workers : create_order_insert_order(w)
    \/ \E w \in Workers : create_order_mutate(w)
    \/ \E w \in Workers : create_order_commit_items(w)

Spec == Init /\ [][Next]_vars

\* concurrent requests, serializable transactions
NextSer ==
    \/ ConcOps
    \/ \E w \in Workers, order_in \in ConcOrderCreate : create_order_txn1(w, order_in)
    \/ \E w \in Workers : create_order_txn2(w)

SpecSer == Init /\ [][NextSer]_vars

\* one request at a time, orders whose items carry sections
NextList ==
    \/ \E n \in ClientIds \cap {client_seq + 1} : create_client(Registered(n))
    \/ create_product(Stocked(product_seq + 1, AmpleStock))
    \/ \E order_in \in SectionOrderCreate : create_order(order_in)
    \/ \E o \in OrderIds : delete_order(o)

SpecList == Init /\ [][NextList]_vars

\* one request at a time, products of several categories and prices on sale
NextShelf ==
    \/ \E n \in ClientIds \cap {client_seq + 1} : create_client(Registered(n))
    \/ \E product_in \in ShelfProductCreate(product_seq + 1) : create_product(product_in)
    \/ \E order_in \in ShelfOrderCreate : create_order(order_in)

SpecShelf == Init /\ [][NextShelf]_vars

\* one request at a time, prices changing while orders are placed and shipped
NextPrice ==
    \/ \E n \in ClientIds \cap {client_seq + 1} : create_client(Registered(n))
    \/ create_product(Stocked(product_seq + 1, AmpleStock))
    \/ \E p \in ProductIds, sale_price \in Prices : update_product(p, Repriced(sale_price))
    \/ \E order_in \in PricedOrderCreate : create_order(order_in)
    \/ \E o \in OrderIds, status \in OrderUpdate : update_order(o, status)
    \/ \E o \in OrderIds : delete_order(o)

SpecPrice == Init /\ [][NextPrice]_vars

\* concurrent requests of the product manager, READ COMMITTED
NextBarcode ==
    \/ \E w \in Workers, barcode \in Labels : create_product_select(w, Labelled(barcode))
    \/ \E w \in Workers : create_product_insert(w)
    \/ \E w \in Workers, p \in ProductIds, barcode \in Labels :
          update_product_select(w, p, Relabelled(barcode))
    \/ \E w \in Workers : update_product_commit(w)
    \/ \E p \in ProductIds : delete_product(p)

SpecBarcode == Init /\ [][NextBarcode]_vars

\* one request at a time, the client and product managers
NextCatalog ==
    \/ \E client_in \in ClientCreate : create_client(client_in)
    \/ \E c \in 1..MaxClientRows, client_update \in ClientUpdate : update_client(c, client_update)
    \/ \E c \in 1..MaxClientRows : delete_client(c)
    \/ \E product_in \in ProductCreate : create_product(product_in)
    \/ \E p \in ProductIds, product_up \in ProductUpdate : update_product(p, product_up)
    \/ \E p \in ProductIds : delete_product(p)

SpecCatalog == Init /\ [][NextCatalog]_vars

\* one request at a time, the user routes
NextUsers ==
    \/ \E user_in \in UserRegister : register_user(user_in)
    \/ \E u \in UserIds, user_in \in UserUpdateMe : update_user_me(u, user_in)
    \/ \E u \in UserIds, body \in UpdatePassword : update_password_me(u, body)
    \/ \E u \in UserIds, user_id \in UserIds : delete_user(u, user_id)
    \/ \E u \in UserIds : delete_user_me(u)
    \/ \E u \in UserIds, user_id \in UserIds, user_in \in UserUpdate : update_user(u, user_id, user_in)

SpecUsers == Init /\ [][NextUsers]_vars

\* one request at a time, each with the bearer token of a user: the user
\* routes, and the client routes behind the dependency of their router
NextAuth ==
    \/ \E user_in \in UserRegister : register_user(user_in)
    \/ \E u \in UserIds, user_in \in UserUpdateMe : update_user_me(u, user_in)
    \/ \E u \in UserIds, body \in UpdatePassword : update_password_me(u, body)
    \/ \E u \in UserIds, user_id \in UserIds : delete_user(u, user_id)
    \/ \E u \in UserIds : delete_user_me(u)
    \/ \E u \in UserIds, user_id \in UserIds, user_in \in UserUpdate : update_user(u, user_id, user_in)
    \/ \E token \in UserIds :
          /\ Authenticated(token, CreateClientOutcome(Registered(client_seq + 1))).status = 200
          /\ create_client(Registered(client_seq + 1))
    \/ \E token \in UserIds, c \in 1..MaxClientRows :
          /\ Authenticated(token, ReadClientOutcome(c)).status = 200
          /\ delete_client(c)

SpecAuth == Init /\ [][NextAuth]_vars

\* ------------------------------------------------------------------ claims
Stock(p) == products[p].initial_stock

RECURSIVE SumOf(_)
SumOf(rows) ==
    IF rows = {} THEN 0
    ELSE LET r == CHOOSE r \in rows : TRUE IN r.quantity + SumOf(rows \ {r})

\* total quantity of the persisted order items that name product p
PersistedQty(p) == SumOf({i \in order_items : i.product_id = p})

\* the products whose ledger is open
Followed == {p \in DOMAIN products : ~ledger[p].updated}

\* item k of a request names a product that is absent / has too little stock
Missing(items, k) == items[k].product_id \notin DOMAIN products
Exceeds(items, k) ==
    /\ items[k].product_id \in DOMAIN products
    /\ items[k].quantity > Stock(items[k].product_id)
FirstFailing(items) ==
    CHOOSE k \in 1..Len(items) :
        /\ Missing(items, k) \/ Exceeds(items, k)
        /\ \A j \in 1..(k - 1) : ~(Missing(items, j) \/ Exceeds(items, j))
FirstFailure(items) ==
    LET k == FirstFailing(items) IN
    Response(IF Missing(items, k) THEN 404 ELSE 400, items[k].product_id)

\* C1: in every reachable state every product's initial_stock is >= 0.
C1_StockNeverNegative == \A p \in DOMAIN products : Stock(p) >= 0

\* the store as create_order found it
Untouched(out) ==
    /\ out.products = products
    /\ out.orders = orders
    /\ out.order_items = order_items
    /\ out.order_seq = order_seq

\* every item of the request names an existing product with enough stock
AllInStock(items) == \A k \in 1..Len(items) : ~Missing(items, k) /\ ~Exceeds(items, k)

\* C2 as stated: a create_order request whose every item asks for no more
\* than the current stock of its product succeeds, the persisted order has
\* exactly N items, and each referenced product's stock goes down by exactly
\* that item's quantity.
C2_EachItemDecrement ==
    \A order_in \in OrderCreate :
        LET items == order_in.items
            out == CreateOrderOutcome(order_in)
        IN  AllInStock(items)
            => /\ out.response.status = 201
               /\ Cardinality({i \in out.order_items : i.order_id = out.response.detail})
                      = Len(items)
               /\ \A k \in 1..Len(items) :
                     out.products[items[k].product_id].initial_stock
                         = Stock(items[k].product_id) - items[k].quantity

\* C2 amended: such a request that names an existing client succeeds, the
\* persisted order has exactly N items, and every product's stock goes down
\* by exactly the total quantity of the request's items that name it.
C2_TotalDecrement ==
    \A order_in \in OrderCreate :
        LET items == order_in.items
            out == CreateOrderOutcome(order_in)
        IN  (order_in.client_id \in DOMAIN clients /\ AllInStock(items))
            => /\ out.response.status = 201
               /\ out.response.detail \in DOMAIN out.orders \ DOMAIN orders
               /\ Cardinality({i \in out.order_items : i.order_id = out.response.detail})
                      = Len(items)
               /\ DOMAIN out.products = DOMAIN products
               /\ \A p \in DOMAIN products :
                     out.products[p].initial_stock = Stock(p) - SumQty(items, p, 1)

\* a request of two items for one product was accepted and took both quantities
C2_Witness ==
    /\ response.status = 201
    /\ response.detail \in DOMAIN orders
    /\ \E p \in Followed :
          /\ \A i \in ItemsOf(response.detail) : i.product_id = p
          /\ Cardinality(ItemsOf(response.detail)) = 2
          /\ ledger[p].sold = 2
          /\ Stock(p) = ledger[p].start - 2

\* C3: every persisted order whose request has been answered has exactly the
\* items that request asked for.
C3_OrderHasItsItems ==
    \A o \in DOMAIN orders :
        (\A w \in Workers : oid[w] # o) => Cardinality(ItemsOf(o)) = requested[o]

\* C4 as stated: a request with an item that asks for more than its product's
\* stock fails with 400 naming such a product and leaves the store untouched.
C4_InsufficientIs400 ==
    \A order_in \in OrderCreate :
        LET items == order_in.items
            out == CreateOrderOutcome(order_in)
        IN  (\E k \in 1..Len(items) : Exceeds(items, k))
            => /\ out.response.status = 400
               /\ \E k \in 1..Len(items) :
                     Exceeds(items, k) /\ out.response.detail = items[k].product_id
               /\ Untouched(out)

\* C4 amended: such a request fails and leaves the store untouched; the first
\* item of the request that fails decides the error: 400 naming its product
\* when the stock is too low, 404 when an earlier item names a missing product.
C4_InsufficientFails ==
    \A order_in \in OrderCreate :
        LET items == order_in.items
            out == CreateOrderOutcome(order_in)
        IN  (\E k \in 1..Len(items) : Exceeds(items, k))
            => /\ out.response = FirstFailure(items)
               /\ Untouched(out)

\* a request was refused with 400 for one product while another is in stock
C4_Witness ==
    /\ response.status = 400
    /\ response.detail \in DOMAIN products
    /\ Stock(response.detail) < MaxQty
    /\ \E p \in DOMAIN products : p # response.detail /\ Stock(p) >= 1

\* C5 as stated: a request with an item that names a missing product fails
\* with 404 naming a missing product, whatever the item's position, and
\* leaves the store untouched.
C5_MissingIs404 ==
    \A order_in \in OrderCreate :
        LET items == order_in.items
            out == CreateOrderOutcome(order_in)
        IN  (\E k \in 1..Len(items) : Missing(items, k))
            => /\ out.response.status = 404
               /\ \E k \in 1..Len(items) :
                     Missing(items, k) /\ out.response.detail = items[k].product_id
               /\ Untouched(out)

\* C5 amended: such a request fails and leaves the store untouched; the first
\* item of the request that fails decides the error: 404 naming the missing
\* product, 400 when an earlier item asks for more than its product's stock.
C5_MissingFails ==
    \A order_in \in OrderCreate :
        LET items == order_in.items
            out == CreateOrderOutcome(order_in)
        IN  (\E k \in 1..Len(items) : Missing(items, k))
            => /\ Untouched(out)
               /\ out.response = FirstFailure(items)

\* a request was refused with 404 for a product that is not there, while a
\* product exists whose item would have passed
C5_Witness ==
    /\ response.status = 404
    /\ response.detail \notin DOMAIN products
    /\ \E p \in DOMAIN products : Stock(p) >= 1

\* C6: under serializable transactions no product is oversold: its stock is
\* never below zero and the persisted order items never ask for more than the
\* stock it was created with.
C6_NeverOversold ==
    \A p \in Followed : Stock(p) >= 0 /\ PersistedQty(p) <= ledger[p].start

\* more was sold than there was, or a decrement was lost
Oversold(p) ==
    \/ Stock(p) < 0
    \/ ledger[p].sold > ledger[p].start
    \/ Stock(p) + ledger[p].sold # ledger[p].start

\* C7: under READ COMMITTED a product is oversold only when two requests
\* raced on it (one was committed while the other had already validated the
\* product); the witness is the oversold state the race reaches.
C7_OversoldOnlyByRace ==
    \A p \in Followed : Oversold(p) => ledger[p].hazard

\* two single-item orders for one product are persisted and ask for more
\* than the product ever had
C7_Witness ==
    \E p \in Followed :
        /\ ledger[p].hazard
        /\ Cardinality({i \in order_items : i.product_id = p}) = 2
        /\ \A o \in DOMAIN orders : Cardinality(ItemsOf(o)) = 1
        /\ PersistedQty(p) > ledger[p].start

\* the stock of every followed product is what it started with minus what
\* the succeeded requests took
LedgerExact == \A p \in Followed : Stock(p) = ledger[p].start - ledger[p].sold

\* C8 as stated: a single-item request on an existing product succeeds if and
\* only if its quantity is <= the stock left, a failed request leaves the
\* stock as it was, and the stock is the starting stock minus the quantities
\* of the succeeded requests.
C8_SucceedsIffInStock ==
    /\ \A order_in \in OrderCreate :
          LET items == order_in.items
              out == CreateOrderOutcome(order_in)
          IN  (Len(items) = 1 /\ ~Missing(items, 1))
              => /\ out.response.status = 201 <=> ~Exceeds(items, 1)
                 /\ out.response.status # 201 => out.products = products
    /\ LedgerExact

\* C8 amended: ... succeeds if and only if its quantity is <= the stock left
\* and its client_id names an existing client ...
C8_SucceedsIffInStockAndClient ==
    /\ \A order_in \in OrderCreate :
          LET items == order_in.items
              out == CreateOrderOutcome(order_in)
          IN  (Len(items) = 1 /\ ~Missing(items, 1))
              => /\ out.response.status = 201
                      <=> (~Exceeds(items, 1) /\ order_in.client_id \in DOMAIN clients)
                 /\ out.response.status # 201 => out.products = products
    /\ LedgerExact

\* stock 2, an order of 1 left 1, then an order of 2 was refused and 1 remains
C8_Witness ==
    /\ response = Response(400, 1)
    /\ 1 \in Followed
    /\ ledger[1].start = 2
    /\ ledger[1].sold = 1
    /\ Stock(1) = 1

\* C9: every persisted order item belongs to a persisted order.
C9_ItemsBelongToOrders == \A i \in order_items : i.order_id \in DOMAIN orders

\* every order was deleted after items had been committed, and no item is left
C9_Witness ==
    /\ order_seq >= 1
    /\ DOMAIN orders = {}
    /\ order_items = {}
    /\ \E p \in Followed : ledger[p].sold > 0

\* C10: delete_order leaves every product's stock unchanged.
C10_DeleteKeepsStock ==
    [][\A o \in OrderIds : delete_order(o) => products' = products]_vars

\* an order that took stock was deleted and the stock is still taken
C10_Witness ==
    \E p \in Followed :
        /\ ledger[p].sold > 0
        /\ PersistedQty(p) = 0
        /\ Stock(p) = ledger[p].start - ledger[p].sold
        /\ Stock(p) < ledger[p].start

\* C11: update_order on an existing order replaces the order's status with
\* the supplied string, whatever the string: the order stored (and so the one
\* returned and read afterwards) has exactly the supplied status.
C11_StatusReplaced ==
    \A o \in DOMAIN orders : \A s \in OrderUpdate :
        StatusAfter(orders[o].status, s) = s

\* C12: read_order, update_order and delete_order on an order id that is not
\* in the store (never handed out, or deleted earlier) each answer 404 'Order
\* not found' and leave every order and item as they were.
C12_AbsentOrderIs404 ==
    \A o \in OrderIds \ DOMAIN orders :
        /\ ReadOrderOutcome(o) = OrderNotFound
        /\ \A s \in OrderUpdate : UpdateOrderOutcome(o, s) = OrderNotFound
        /\ DeleteOrderOutcome(o) = OrderNotFound
        /\ OrderNotFound.status = 404
        /\ OrderNotFound.orders = orders /\ OrderNotFound.order_items = order_items

\* order 1 was deleted with its items while order 2 and its items are still
\* there: requests for id 1 now meet an absent order
C12_Witness ==
    /\ order_seq = 2
    /\ DOMAIN orders = {2}
    /\ ItemsOf(2) # {}
    /\ \E p \in Followed : ledger[p].sold > PersistedQty(p)

\* the orders that have at least one item of the section
InSection(section) == {o \in DOMAIN orders : \E i \in ItemsOf(o) : i.section = section}

\* C13: list_orders with a section filter returns only orders that have an
\* item of that section and, with skip = 0 and a limit not smaller than the
\* number of orders, every such order.
C13_SectionFilter ==
    \A section \in Sections :
        \A limit \in 1..(MaxOrders * MaxItems) :
            limit >= Cardinality(DOMAIN orders)
            => \A page \in ListOrdersPages(section, 0, limit) :
                  Listed(page) = InSection(section)

\* some product other than `except` holds the barcode
BarcodeHeld(barcode, except) ==
    \E q \in DOMAIN products \ {except} : products[q].barcode = barcode

\* C14: no two products hold the same barcode; create_product with a barcode
\* a product already holds is rejected (400 'Barcode already in use') and
\* persists nothing; update_product to a barcode a different product holds is
\* rejected and changes nothing.
C14_BarcodesUnique ==
    /\ \A p, q \in DOMAIN products : p # q => products[p].barcode # products[q].barcode
    /\ \A product_in \in ProductCreate :
          BarcodeHeld(product_in.barcode, 0)
          => LET out == CreateProductOutcome(product_in)
             IN  out.status = 400 /\ out.products = products
    /\ \A p \in DOMAIN products : \A product_up \in ProductUpdate :
          (product_up.barcode # Unset /\ BarcodeHeld(product_up.barcode, p))
          => LET out == UpdateProductOutcome(p, product_up)
             IN  out.status = 400 /\ out.products = products

\* C15: update_product to the barcode of a different existing product fails
\* with 400 'Barcode already in use'; update_product to the product's own
\* barcode (which no other product holds) succeeds and applies the other
\* supplied fields.
C15_NoSelfConflict ==
    \A p \in DOMAIN products : \A product_up \in ProductUpdate :
        LET out == UpdateProductOutcome(p, product_up) IN
        /\ (product_up.barcode # Unset /\ BarcodeHeld(product_up.barcode, p))
           => out.status = 400 /\ out.detail = "Barcode already in use"
        /\ (product_up.barcode = products[p].barcode /\ ~BarcodeHeld(product_up.barcode, p))
           => /\ out.status = 200
              /\ out.products[p].barcode = products[p].barcode
              /\ product_up.initial_stock # NoStock
                 => out.products[p].initial_stock = product_up.initial_stock

\* some client other than `except` holds the email / the cpf
EmailHeld(email, except) == \E d \in DOMAIN clients \ {except} : clients[d].email = email
CpfHeld(cpf, except) == \E d \in DOMAIN clients \ {except} : clients[d].cpf = cpf

\* a request that collides is answered 400 with a detail naming a field that
\* collides, and leaves table client as it was
RejectedNaming(out, email_collides, cpf_collides) ==
    /\ out.status = 400
    /\ out.clients = clients
    /\ \/ email_collides /\ out.detail = "Email already registered"
       \/ cpf_collides /\ out.detail = "CPF already registered"

C17_PasswordChange ==
    \A u \in DOMAIN users, body \in UpdatePassword :
        LET out == UpdatePasswordOutcome(u, body)
            stored == users[u].hashed_password IN
        IF /\ verify_password(body.current_password, stored)
           /\ body.current_password # body.new_password
        THEN /\ out.status = 200
             /\ out.users[u].hashed_password # stored
             /\ verify_password(body.new_password, out.users[u].hashed_password)
             /\ \A v \in DOMAIN users \ {u} : out.users[v] = users[v]
        ELSE /\ out.status = 400
             /\ out.users = users

\* the administrator has changed the password the tables were created with
C17_Witness ==
    /\ 1 \in DOMAIN users
    /\ users[1].hashed_password # FirstAdmin.hashed_password
    /\ UpdatePasswordOutcome(1, [current_password |-> "password1",
                                 new_password |-> "password2"]).status = 400
    /\ UpdatePasswordOutcome(1, [current_password |-> "password2",
                                 new_password |-> "password2"]).status = 400

\* C18: a user who is not an administrator is answered 403 when reading the
\* record of another id and when listing the users, and is given no record;
\* every user reads the own record by id; an administrator reads the record of
\* every existing user.
C18_ReadAccess ==
    \A u \in DOMAIN users :
        /\ ReadUserByIdOutcome(u, u) = [status |-> 200, detail |-> "", user |-> u]
        /\ users[u].role # ADMIN =>
              /\ ReadUsersOutcome(u).status = 403
              /\ ReadUsersOutcome(u).data = {}
              /\ \A user_id \in UserIds \ {u} :
                    /\ ReadUserByIdOutcome(u, user_id).status = 403
                    /\ ReadUserByIdOutcome(u, user_id).user = 0
        /\ users[u].role = ADMIN =>
              /\ ReadUsersOutcome(u) = [status |-> 200, detail |-> "", data |-> DOMAIN users]
              /\ \A user_id \in DOMAIN users :
                    ReadUserByIdOutcome(u, user_id).user = user_id

\* an administrator, a client and a third user are registered, and the client
\* asks for the record of the third
C18_Witness ==
    \E a, c, t \in DOMAIN users :
        /\ a # c /\ c # t /\ a # t
        /\ users[a].role = ADMIN
        /\ users[c].role = CLIENT
        /\ ReadUserByIdOutcome(c, t).status = 403
        /\ ReadUserByIdOutcome(a, t).user = t
        /\ ReadUsersOutcome(c).status = 403

\* C19: DELETE /users/{id} sent by an administrator is answered 403 for the
\* administrator's own id and the record stays; for another existing user it
\* removes that user and no other; for an absent id it is answered 404 and
\* nothing changes.
C19_AdminDelete ==
    \A a \in DOMAIN users, user_id \in UserIds :
        users[a].role = ADMIN =>
            LET out == DeleteUserOutcome(a, user_id) IN
            IF user_id = a
            THEN out.status = 403 /\ out.users = users
            ELSE IF user_id \in DOMAIN users
            THEN /\ out.status = 200
                 /\ DOMAIN out.users = DOMAIN users \ {user_id}
                 /\ \A v \in DOMAIN out.users : out.users[v] = users[v]
            ELSE out.status = 404 /\ out.users = users

\* an administrator is left with one other user after a third was removed
C19_Witness ==
    \E a, v \in DOMAIN users, gone \in 1..user_seq :
        /\ a # v
        /\ gone \notin DOMAIN users
        /\ users[a].role = ADMIN
        /\ DeleteUserOutcome(a, a).status = 403
        /\ DeleteUserOutcome(a, v).status = 200
        /\ DeleteUserOutcome(a, gone).status = 404

\* the email is held by a user other than `user_id`
HeldByAnother(user_id, email) ==
    \E v \in DOMAIN users \ {user_id} : users[v].email = email

\* C20: no two users share an email; register_user refuses an email that is
\* held, update_user_me and update_user answer 409 and change nothing when the
\* email of the body is held by another user, and accept the user's own email.
C20_UserEmailsUnique ==
    /\ \A u, v \in DOMAIN users : u # v => users[u].email # users[v].email
    /\ \A user_in \in UserRegister :
          HeldByAnother(0, user_in.email) =>
              /\ RegisterUserOutcome(user_in).status = 400
              /\ RegisterUserOutcome(user_in).users = users
    /\ \A u \in DOMAIN users, user_in \in UserUpdateMe :
          LET out == UpdateUserMeOutcome(u, user_in) IN
          /\ HeldByAnother(u, user_in.email) => out.status = 409 /\ out.users = users
          /\ user_in.email = users[u].email => out.status = 200 /\ out.users = users
    /\ \A a \in DOMAIN users, u \in DOMAIN users, user_in \in UserUpdate :
          users[a].role = ADMIN =>
              LET out == UpdateUserOutcome(a, u, user_in) IN
              /\ HeldByAnother(u, user_in.email) => out.status = 409 /\ out.users = users
              /\ user_in.email = users[u].email =>
                    out.status = 200 /\ out.users[u].email = users[u].email

\* the first administrator has taken another email, a second user holds yet
\* another, and each is refused the email of the other
C20_Witness ==
    \E u \in DOMAIN users \ {1} :
        /\ 1 \in DOMAIN users
        /\ users[1].email # FirstAdmin.email
        /\ users[1].role = ADMIN
        /\ RegisterUserOutcome([email |-> users[u].email, password |-> "password1"]).status = 400
        /\ UpdateUserMeOutcome(u, [email |-> users[1].email]).status = 409
        /\ UpdateUserMeOutcome(u, [email |-> users[u].email]).status = 200
        /\ UpdateUserOutcome(1, u, [email |-> users[1].email, role |-> Unset,
                                   is_active |-> Unset]).status = 409

\* the token was issued to a user that is deleted or inactive by now
Revoked(token) == token \notin DOMAIN users \/ ~users[token].is_active

\* the route answered what get_current_user raised and nothing of a handler
RejectedByDependency(out) ==
    /\ out.status \in {400, 404}
    /\ out.detail \in {"Inactive user", "User Not Found"}
    /\ DOMAIN out = {"status", "detail"}

\* C21: a request whose bearer token was issued to a user that is deleted or
\* inactive by now is rejected by get_current_user on every authenticated
\* route, and the answer carries nothing a handler would write.
C21_RevokedTokenRejected ==
    \A token \in UserIds :
        Revoked(token) =>
            /\ get_current_user(token).status \in {400, 404}
            /\ get_current_user(token).user = 0
            /\ \A user_in \in UserUpdateMe :
                  RejectedByDependency(Authenticated(token, UpdateUserMeOutcome(token, user_in)))
            /\ \A body \in UpdatePassword :
                  RejectedByDependency(Authenticated(token, UpdatePasswordOutcome(token, body)))
            /\ RejectedByDependency(Authenticated(token, DeleteUserMeOutcome(token)))
            /\ RejectedByDependency(Authenticated(token, ReadUsersOutcome(token)))
            /\ \A user_id \in UserIds :
                  /\ RejectedByDependency(Authenticated(token, ReadUserByIdOutcome(token, user_id)))
                  /\ RejectedByDependency(Authenticated(token, DeleteUserOutcome(token, user_id)))
                  /\ \A user_in \in UserUpdate :
                        RejectedByDependency(
                            Authenticated(token, UpdateUserOutcome(token, user_id, user_in)))
            /\ \A client_in \in ClientCreate :
                  RejectedByDependency(Authenticated(token, CreateClientOutcome(client_in)))
            /\ \A c \in 1..MaxClientRows :
                  RejectedByDependency(Authenticated(token, ReadClientOutcome(c)))
            /\ \A order_in \in OrderCreate :
                  RejectedByDependency(Authenticated(token, CreateOrderOutcome(order_in)))
            /\ \A product_in \in ProductCreate :
                  RejectedByDependency(Authenticated(token, CreateProductOutcome(product_in)))

\* a user who registered a client was deleted, and another was set inactive
C21_Witness ==
    \E gone \in 1..user_seq, idle \in DOMAIN users :
        /\ gone \notin DOMAIN users
        /\ ~users[idle].is_active
        /\ clients # EmptyMap
        /\ get_current_user(gone).status = 404
        /\ get_current_user(idle).status = 400

\* C22: after update_password_me has succeeded for a user, a request with a
\* token issued to that user before the change is rejected.
C22_PasswordChangeRevokes ==
    [][\A u \in UserIds, body \in UpdatePassword :
          update_password_me(u, body) => get_current_user(u)'.status # 200]_vars

\* C23: DELETE /users/me sent by an administrator is refused and the record
\* of the administrator stays.
C23_AdminKeepsAccount ==
    \A u \in DOMAIN users :
        users[u].role = ADMIN /\ users[u].is_active =>
            LET out == Authenticated(u, DeleteUserMeOutcome(u)) IN
            /\ out.status # 200
            /\ "users" \in DOMAIN out => u \in DOMAIN out.users

\* C24: every product on a page of list_products satisfies every filter that
\* was supplied: its category is the one asked for, its sale_price lies in
\* [min_price, max_price], and its current stock is > 0 for available=true
\* and <= 0 for available=false.
C24_FiltersHold ==
    \A q \in ProductQuery : \A page \in ListProductsPages(q) : \A p \in page :
        /\ q.category # Unset => products[p].category = q.category
        /\ q.min_price # NoPrice => products[p].sale_price >= q.min_price
        /\ q.max_price # NoPrice => products[p].sale_price <= q.max_price
        /\ q.available = "true" => products[p].initial_stock > 0
        /\ q.available = "false" => products[p].initial_stock <= 0

\* C25: the items create_order persists carry the unit_price of the request,
\* whatever the sale_price of the product, and no step changes the
\* unit_price, quantity or section of an item of an order that stays.
C25_PriceAtSale ==
    /\ [](\A order_in \in PricedOrderCreate :
            LET out == CreateOrderOutcome(order_in) IN
            out.response.status = 201 =>
                /\ order_items \subseteq out.order_items
                /\ \A k \in 1..Len(order_in.items) :
                      \E i \in out.order_items \ order_items :
                          /\ i.order_id = out.order_seq
                          /\ i.product_id = order_in.items[k].product_id
                          /\ i.quantity = order_in.items[k].quantity
                          /\ i.unit_price = order_in.items[k].unit_price
                          /\ i.section = order_in.items[k].section)
    /\ [][\A i \in order_items : i.order_id \in DOMAIN orders' => i \in order_items']_vars

\* an order was shipped and its item keeps a price the product no longer has
C25_Witness ==
    \E i \in order_items :
        /\ orders[i.order_id].status = "shipped"
        /\ i.product_id \in DOMAIN products
        /\ products[i.product_id].sale_price # i.unit_price
        /\ products[i.product_id].sale_price # ListPrice

\* C26: a request whose items all name one product, two of them or more,
\* succeeds only if the sum of their quantities is within the product's
\* stock; otherwise it is answered 400 and no stock changes.
C26_SameProductSummed ==
    \A order_in \in OrderCreate : \A p \in DOMAIN products :
        LET out == CreateOrderOutcome(order_in) IN
        /\ Len(order_in.items) >= 2
        /\ \A k \in 1..Len(order_in.items) : order_in.items[k].product_id = p
        /\ order_in.client_id \in DOMAIN clients
        => IF SumQty(order_in.items, p, 1) <= products[p].initial_stock
           THEN out.response.status = 201
           ELSE out.response.status = 400 /\ out.products = products

\* C27: whatever delete_product or update_product commits while create_order
\* runs, an order that is in the store once its request has ended has all the
\* items that were requested, and the stock of the products it names is not
\* negative unless two orders raced on the product.
C27_OrderWholeOrAbsent ==
    \A o \in DOMAIN orders :
        (\A w \in Workers : oid[w] # o) =>
            /\ Cardinality(ItemsOf(o)) = requested[o]
            /\ \A i \in ItemsOf(o) :
                  i.product_id \in DOMAIN products =>
                      Stock(i.product_id) >= 0 \/ ledger[i.product_id].hazard

\* C28: with a section filter, list_orders lists no order twice, and a page
\* holds as many orders as match, up to limit.
C28_EachOrderOnce ==
    \A section \in Sections : \A limit \in 1..(MaxOrders * MaxItems) :
        \A page \in ListOrdersPages(section, 0, limit) :
            /\ Cardinality(page) = Cardinality(Listed(page))
            /\ Cardinality(Listed(page)) =
                  IF Cardinality(InSection(section)) > limit
                  THEN limit ELSE Cardinality(InSection(section))

\* C29: in every state the client of every persisted order and the product of
\* every persisted order item are in the store; create_order is refused for
\* a client that does not exist.
C29_ReferencesResolve ==
    /\ \A o \in DOMAIN orders : orders[o].client_id \in DOMAIN clients
    /\ \A i \in order_items : i.product_id \in DOMAIN products
    /\ \A order_in \in OrderCreate :
          order_in.client_id \notin DOMAIN clients =>
              LET out == CreateOrderOutcome(order_in) IN
              /\ out.response.status \notin {200, 201}
              /\ out.orders = orders

\* orders were placed and removed, the client and a product were deleted once
\* nothing referenced them, and a request now names the deleted client
C29_Witness ==
    /\ order_seq >= 1
    /\ \E c \in 1..client_seq : c \notin DOMAIN clients
    /\ \E p \in 1..product_seq : p \notin DOMAIN products
    /\ \E order_in \in OrderCreate :
          /\ order_in.client_id \notin DOMAIN clients
          /\ order_in.items # <<>>
          /\ \A k \in 1..Len(order_in.items) :
                /\ order_in.items[k].product_id \in DOMAIN products
                /\ order_in.items[k].quantity <= Stock(order_in.items[k].product_id)
          /\ CreateOrderOutcome(order_in).response.status = 500

\* C30: with non-empty barcodes, whatever the interleaving of create_product
\* and update_product requests, no two products in the store have the same
\* barcode.
C30_NoSharedBarcode ==
    \A p, q \in DOMAIN products : p # q => products[p].barcode # products[q].barcode

====
